---- MODULE Spec2Model ----
(***************************************************************************)
(* Model of app/main.py (Planet Lines API): the two formatters             *)
(* format_utcoffset and dec_to_dm_str, the temporal normalizer to_dt,      *)
(* the house lookup safe_house and the handlers /astro_eval and /debug.    *)
(*                                                                         *)
(* Numbers.  A float is modelled in fixed point.  An offset in hours is    *)
(* an integer count of units of 1/(60*MinuteParts) hour, a coordinate in   *)
(* degrees an integer count of units of 1/(60*MinuteParts) degree.         *)
(* Python's round() is round-half-to-even on the float it is given; the    *)
(* model rounds the exact value half-to-even.  The two agree wherever the  *)
(* exact value is not a tie (k + 1/2); with MinuteParts odd the grid holds *)
(* no tie at all.                                                          *)
(*                                                                         *)
(* Strings.  A formatted string is the sequence of its characters.  An     *)
(* input string (birthdate_iso, birthtime_24) is the record of the fields  *)
(* its text spells, with form "junk" for a text of no ISO shape.           *)
(***************************************************************************)
EXTENDS Integers, Sequences, FiniteSets, TLC

VARIABLES
    pc,         \* position of the running handler
    data,       \* the BirthData of the request
    fdt,        \* result of to_dt(data): the Datetime triple, or NoValue
    lat_str,    \* dec_to_dm_str(data.latitude, TRUE), or NoValue
    lon_str,    \* dec_to_dm_str(data.longitude, FALSE), or NoValue
    chart,      \* the Chart the engine built, or NoValue
    planets,    \* the list built by the loop of astro_eval
    lookups,    \* house lookups called by the most recent safe_house
    raised,     \* the exception raised inside the handler, or NoValue
    response,   \* what the caller receives, or NoValue
    call,       \* formatter harness: the function applied and its arguments
    ret         \* formatter harness: the string returned, or NoValue

vars == <<pc, data, fdt, lat_str, lon_str, chart, planets, lookups, raised, response, call, ret>>

hvars == <<pc, data, fdt, lat_str, lon_str, chart, planets, lookups, raised, response>>

NoValue == [none |-> TRUE]

None == "None"

\* a float of the request: a fixed-point number, or NaN
Float(units) == [nan |-> FALSE, v |-> units]

NaN == [nan |-> TRUE, v |-> 0]

\* Optional[int]: None, or the integer
NoHouse == <<>>

House(n) == <<n>>

-----------------------------------------------------------------------------
(* Bounds of the model *)

\* subdivisions of one minute in the fixed-point representation
MinuteParts == 3

\* formatter harness: offsets range over [-MaxWestHours, MaxEastHours] hours
MaxWestHours == 12

MaxEastHours == 14

\* formatter harness: coordinates range over [-MaxDeg, MaxDeg] degrees
MaxDeg == 2

\* deepest call stack, below the handler, at which the chart engine raises
MaxLibDepth == 5

-----------------------------------------------------------------------------
(* Arithmetic and text helpers *)

Abs(x) == IF x >= 0 THEN x ELSE -x

Min(a, b) == IF a <= b THEN a ELSE b

\* int(round(num / den)) for num >= 0, den > 0: nearest integer, ties to even
Round(num, den) ==
    LET q == num \div den
        r == num % den
    IN  IF 2 * r < den THEN q
        ELSE IF 2 * r > den THEN q + 1
        ELSE IF q % 2 = 0 THEN q ELSE q + 1

DigitChars == <<"0", "1", "2", "3", "4", "5", "6", "7", "8", "9">>

RECURSIVE Dec(_)
\* str(n) for n >= 0: the decimal digits of n
Dec(n) == IF n < 10 THEN <<DigitChars[n + 1]>>
          ELSE Dec(n \div 10) \o <<DigitChars[(n % 10) + 1]>>

RECURSIVE Zeros(_)
Zeros(k) == IF k <= 0 THEN <<>> ELSE <<"0">> \o Zeros(k - 1)

\* f"{n:0wd}" for n >= 0: the digits of n, zero-padded on the left to width w
Pad(n, w) == Zeros(w - Len(Dec(n))) \o Dec(n)

\* the first n entries of s
Take(s, n) == SubSeq(s, 1, Min(n, Len(s)))

-----------------------------------------------------------------------------
(* 4.1 Degree/Offset formatter *)

UnitsPerMinute == MinuteParts

UnitsPerHour == 60 * MinuteParts

\* format_utcoffset with the minutes truncated instead of rounded (not the code)
format_utcoffset_trunc(offset_units) ==
    LET sign == IF offset_units >= 0 THEN "+" ELSE "-"
        ah == Abs(offset_units)
        h == ah \div UnitsPerHour
        m == (ah - h * UnitsPerHour) \div UnitsPerMinute
    IN  <<sign>> \o Pad(h, 2) \o <<":">> \o Pad(m, 2)

\* format_utcoffset(offset_hours), offset_hours = offset_units / UnitsPerHour
format_utcoffset(offset_units) ==
    LET sign == IF offset_units >= 0 THEN "+" ELSE "-"
        ah == Abs(offset_units)
        h == ah \div UnitsPerHour
        m == Round(ah - h * UnitsPerHour, UnitsPerMinute)
    IN  <<sign>> \o Pad(h, 2) \o <<":">> \o Pad(m, 2)

\* dec_to_dm_str without the carry of 60 minutes into the degree (not the code)
dec_to_dm_str_nocarry(value, is_lat) ==
    LET deg == Abs(value) \div UnitsPerHour
        minutes == Round(Abs(value) - deg * UnitsPerHour, UnitsPerMinute)
        hemi == IF is_lat THEN (IF value >= 0 THEN "n" ELSE "s")
                          ELSE (IF value >= 0 THEN "e" ELSE "w")
    IN  Dec(deg) \o <<hemi>> \o Pad(minutes, 2)

\* dec_to_dm_str(value, is_lat), value = value_units / UnitsPerHour degrees
dec_to_dm_str(value, is_lat) ==
    LET deg0 == Abs(value) \div UnitsPerHour
        minutes0 == Round(Abs(value) - deg0 * UnitsPerHour, UnitsPerMinute)
        deg == IF minutes0 = 60 THEN deg0 + 1 ELSE deg0
        minutes == IF minutes0 = 60 THEN 0 ELSE minutes0
        hemi == IF is_lat THEN (IF value >= 0 THEN "n" ELSE "s")
                          ELSE (IF value >= 0 THEN "e" ELSE "w")
    IN  Dec(deg) \o <<hemi>> \o Pad(minutes, 2)

-----------------------------------------------------------------------------
(* Calendar arithmetic of datetime (proleptic Gregorian, years 1..9999) *)

IsLeap(y) == (y % 4 = 0) /\ ((y % 100 # 0) \/ (y % 400 = 0))

DaysInMonth(y, m) ==
    IF m = 2 THEN (IF IsLeap(y) THEN 29 ELSE 28)
    ELSE IF m \in {4, 6, 9, 11} THEN 30 ELSE 31

RECURSIVE DaysBeforeMonth(_, _)
DaysBeforeMonth(y, m) ==
    IF m <= 1 THEN 0 ELSE DaysBeforeMonth(y, m - 1) + DaysInMonth(y, m - 1)

DaysBeforeYear(y) ==
    (y - 1) * 365 + ((y - 1) \div 4) - ((y - 1) \div 100) + ((y - 1) \div 400)

\* An instant is [day, min]: days since 0001-01-01 and the minute of that day
\* (one count of minutes would not fit TLC's 32-bit integers).
ToInstant(y, m, d, h, mi) ==
    [day |-> DaysBeforeYear(y) + DaysBeforeMonth(y, m) + d - 1, min |-> h * 60 + mi]

\* the instant `minutes` later (earlier when negative)
Shift(t, minutes) ==
    [day |-> t.day + ((t.min + minutes) \div 1440), min |-> (t.min + minutes) % 1440]

Before(a, b) == a.day < b.day \/ (a.day = b.day /\ a.min < b.min)

\* the last representable day, 9999-12-31
MaxDay == DaysBeforeYear(9999) + 364

InRange(t) == t.day >= 0 /\ t.day <= MaxDay

\* the wall-clock fields of instant t (datetime's _ord2ymd), for InRange(t)
FromInstant(t) ==
    LET n0 == t.day
        n400 == n0 \div 146097
        r400 == n0 % 146097
        n100 == r400 \div 36524
        r100 == r400 % 36524
        n4 == r100 \div 1461
        r4 == r100 % 1461
        n1 == r4 \div 365
        r1 == r4 % 365
        last == (n1 = 4) \/ (n100 = 4)
        y0 == n400 * 400 + n100 * 100 + n4 * 4 + n1 + 1
        y == IF last THEN y0 - 1 ELSE y0
        doy == IF last THEN 365 + (IF IsLeap(y) THEN 1 ELSE 0) - 1 ELSE r1
        m == CHOOSE k \in 1 .. 12 :
                 /\ DaysBeforeMonth(y, k) <= doy
                 /\ doy < DaysBeforeMonth(y, k) + DaysInMonth(y, k)
    IN  [year |-> y, month |-> m, day |-> doy - DaysBeforeMonth(y, m) + 1,
         hour |-> t.min \div 60, minute |-> t.min % 60]

-----------------------------------------------------------------------------
(* Input texts *)

Date(y, m, d) == [form |-> "ymd", y |-> y, m |-> m, d |-> d]

JunkDate == [form |-> "junk", y |-> 0, m |-> 0, d |-> 0]

\* "HH:MM"
Time(h, mi) == [form |-> "hm", h |-> h, mi |-> mi, sign |-> 0, oh |-> 0]

\* "HH:MM+OO" or "HH:MM-OO": the ":00" appended by to_dt completes a UTC offset
TimeOff(h, mi, sign, oh) == [form |-> "hm_off", h |-> h, mi |-> mi, sign |-> sign, oh |-> oh]

JunkTime == [form |-> "junk", h |-> 0, mi |-> 0, sign |-> 0, oh |-> 0]

\* datetime.fromisoformat(f"{date}T{time}:00"): the parsed value, or the
\* ValueError it raises
fromisoformat(date, time) ==
    IF date.form = "junk" \/ time.form = "junk"
        THEN [ok |-> FALSE, msg |-> "Invalid isoformat string"]
    ELSE IF time.form = "hm_off" /\ time.oh >= 24
        THEN [ok |-> FALSE, msg |-> "offset must be a timedelta strictly between -24h and 24h"]
    ELSE IF date.y < 1 \/ date.y > 9999
        THEN [ok |-> FALSE, msg |-> "year is out of range"]
    ELSE IF date.m < 1 \/ date.m > 12
        THEN [ok |-> FALSE, msg |-> "month must be in 1..12"]
    ELSE IF date.d < 1 \/ date.d > DaysInMonth(date.y, date.m)
        THEN [ok |-> FALSE, msg |-> "day is out of range for month"]
    ELSE IF time.h > 23
        THEN [ok |-> FALSE, msg |-> "hour must be in 0..23"]
    ELSE IF time.mi > 59
        THEN [ok |-> FALSE, msg |-> "minute must be in 0..59"]
    ELSE [ok |-> TRUE,
          dt |-> [year |-> date.y, month |-> date.m, day |-> date.d,
                  hour |-> time.h, minute |-> time.mi,
                  tzinfo |-> IF time.form = "hm_off"
                                 THEN [aware |-> TRUE, minutes |-> time.sign * time.oh * 60]
                                 ELSE [aware |-> FALSE, minutes |-> 0]]]

-----------------------------------------------------------------------------
(* The timezone library: the zones the model knows, with their rules for 2021.
   Offsets are in minutes; start and end are the UTC instants at which
   daylight-saving time begins and ends. *)

\* start = end: the zone has no daylight-saving time
NoInstant == [day |-> 0, min |-> 0]

ZoneTable ==
    [z \in {"UTC", "Europe/Vienna", "America/New_York", "Asia/Kolkata"} |->
        CASE z = "UTC" -> [std |-> 0, dst |-> 0, start |-> NoInstant, end |-> NoInstant]
          [] z = "Europe/Vienna" ->
                [std |-> 60, dst |-> 120,
                 start |-> ToInstant(2021, 3, 28, 1, 0),
                 end |-> ToInstant(2021, 10, 31, 1, 0)]
          [] z = "America/New_York" ->
                [std |-> -300, dst |-> -240,
                 start |-> ToInstant(2021, 3, 14, 7, 0),
                 end |-> ToInstant(2021, 11, 7, 6, 0)]
          [] z = "Asia/Kolkata" ->
                [std |-> 330, dst |-> 330, start |-> NoInstant, end |-> NoInstant]]

KnownZones == DOMAIN ZoneTable

\* pytz.timezone(tzname), with the fallback of to_dt: an unknown name raises
\* and tz becomes pytz.UTC
resolve_tz(timezone_name) ==
    LET tzname == IF timezone_name = None \/ timezone_name = "" THEN "UTC"
                  ELSE timezone_name
    IN  IF tzname \in KnownZones THEN tzname ELSE "UTC"

\* localize with the zone's standard offset whatever the date (not the code)
ZoneOffsetLocal_static(zone, local) == ZoneTable[zone].std

\* utcoffset of tz.localize(dt_naive), is_dst=False: the zone's offset at the
\* wall-clock minute; a wall-clock value the transition skips or repeats
\* gets the standard offset
ZoneOffsetLocal(zone, local) ==
    LET z == ZoneTable[zone]
    IN  IF ~Before(local, Shift(z.start, z.dst)) /\ Before(local, Shift(z.end, z.std))
            THEN z.dst ELSE z.std

\* utcoffset of tz.fromutc(utc): the zone's offset at the UTC minute
ZoneOffsetUtc(zone, utc) ==
    LET z == ZoneTable[zone]
    IN  IF ~Before(utc, z.start) /\ Before(utc, z.end) THEN z.dst ELSE z.std

-----------------------------------------------------------------------------
(* 4.2 Temporal normalizer *)

HTTPException(status, detail, tb, context) ==
    [type |-> "HTTPException", status |-> status, detail |-> detail,
     tb |-> tb, context |-> context]

Exception(type, msg, tb) ==
    [type |-> type, status |-> 0, detail |-> msg, tb |-> tb, context |-> <<>>]

WallFields(dt) == [year |-> dt.year, month |-> dt.month, day |-> dt.day,
                   hour |-> dt.hour, minute |-> dt.minute]

\* localize that converts the value from UTC into the zone (not the code)
localize_convert(zone, dt) ==
    LET utc == ToInstant(dt.year, dt.month, dt.day, dt.hour, dt.minute)
        off == ZoneOffsetUtc(zone, utc)
    IN  [wall |-> IF InRange(Shift(utc, off)) THEN FromInstant(Shift(utc, off))
                  ELSE WallFields(dt),
         offset |-> off]

\* tz.localize(dt_naive): the zone is attached, the wall-clock value kept
localize(zone, dt) ==
    [wall |-> WallFields(dt),
     offset |-> ZoneOffsetLocal(zone, ToInstant(dt.year, dt.month, dt.day, dt.hour, dt.minute))]

\* dt.astimezone(tz) for an aware dt: the instant is kept, the wall-clock
\* value converted; OverflowError when the instant leaves years 1..9999
astimezone(zone, dt) ==
    LET utc == Shift(ToInstant(dt.year, dt.month, dt.day, dt.hour, dt.minute),
                     -dt.tzinfo.minutes)
        off == ZoneOffsetUtc(zone, utc)
    IN  IF InRange(utc) /\ InRange(Shift(utc, off))
            THEN [ok |-> TRUE, wall |-> FromInstant(Shift(utc, off)), offset |-> off]
            ELSE [ok |-> FALSE, wall |-> WallFields(dt), offset |-> 0]

FormatDate(w) == Pad(w.year, 4) \o <<"/">> \o Pad(w.month, 2) \o <<"/">> \o Pad(w.day, 2)

FormatTime(w) == Pad(w.hour, 2) \o <<":">> \o Pad(w.minute, 2)

\* Datetime(date_str, time_str, offset_str) from the aware value
Datetime(aware) ==
    [date |-> FormatDate(aware.wall),
     time |-> FormatTime(aware.wall),
     utcoffset |-> format_utcoffset(aware.offset * UnitsPerMinute)]

\* to_dt(data): [ok |-> TRUE, val |-> Datetime] or [ok |-> FALSE, exc |-> ...];
\* caller is the stack from the handler down to the call of to_dt
to_dt(d, caller) ==
    LET tz == resolve_tz(d.timezone_name)
        parsed == fromisoformat(d.birthdate_iso, d.birthtime_24)
    IN  IF ~parsed.ok
            THEN [ok |-> FALSE,
                  exc |-> HTTPException(422, <<"Invalid date/time: ", parsed.msg>>,
                                        caller \o <<"to_dt">>, <<"to_dt">>)]
        ELSE IF ~parsed.dt.tzinfo.aware
            THEN [ok |-> TRUE, val |-> Datetime(localize(tz, parsed.dt))]
        ELSE LET conv == astimezone(tz, parsed.dt)
             IN  IF conv.ok
                     THEN [ok |-> TRUE, val |-> Datetime(conv)]
                     ELSE [ok |-> FALSE,
                           exc |-> Exception("OverflowError", "date value out of range",
                                             caller \o <<"to_dt">>)]

-----------------------------------------------------------------------------
(* The chart engine (flatlib), a black box: what it answers is fixed when the
   chart is built.  primary and secondary say how the two house lookups
   behave, fail_at where the engine raises (0: nowhere; 1..10: chart.get of
   that body in the loop; 11: chart.get for the summary) and fail_depth how
   many engine frames lie below the handler when it does. *)

PLANETS == <<"Sun", "Moon", "Mercury", "Venus", "Mars", "Jupiter", "Saturn",
             "Uranus", "Neptune", "Pluto">>

LINE_TYPES == <<"AC", "DC", "MC", "IC">>

TraceLimit == 4

Signs == <<"Aries", "Taurus", "Gemini", "Cancer", "Leo", "Virgo", "Libra",
           "Scorpio", "Sagittarius", "Capricorn", "Aquarius", "Pisces">>

\* chart.houses.getObjectHouse(body): raises; returns an int; returns an object
\* whose num is an int; returns an object whose num is a method (int() of it
\* raises TypeError); returns None (int(None) raises TypeError)
PrimaryKinds == {"raises", "int", "obj_num", "obj_method", "none"}

\* chart.houseOf(body): raises (no such attribute); returns an int; returns a
\* value int() cannot convert
SecondaryKinds == {"raises", "int", "bad"}

Charts ==
    [primary : PrimaryKinds, secondary : SecondaryKinds, fail_at : {0}, fail_depth : {1}]
    \cup [primary : {"obj_method"}, secondary : {"raises"},
          fail_at : {1, 6, 10, 11}, fail_depth : 1 .. MaxLibDepth]

\* what the engine reports for the i-th body
BodySign(i) == Signs[((i * 5) % 12) + 1]

PrimaryHouse(i) == ((i * 5) % 12) + 1

SecondaryHouse(i) == ((i * 7) % 12) + 1

EngineTb(depth) == <<"astro_eval">> \o [k \in 1 .. depth |-> "flatlib"]

-----------------------------------------------------------------------------
(* House lookup *)

\* safe_house where only a raising lookup is caught, not a failing int() (not the code)
safe_house_int_unguarded(c, i) ==
    IF c.primary \in {"int", "obj_num"}
        THEN [raised |-> FALSE, value |-> House(PrimaryHouse(i)), calls |-> <<"getObjectHouse">>]
    ELSE IF c.primary \in {"obj_method", "none"}
        THEN [raised |-> TRUE, value |-> NoHouse, calls |-> <<"getObjectHouse">>]
    ELSE IF c.secondary = "int"
        THEN [raised |-> FALSE, value |-> House(SecondaryHouse(i)),
              calls |-> <<"getObjectHouse", "houseOf">>]
    ELSE IF c.secondary = "bad"
        THEN [raised |-> TRUE, value |-> NoHouse, calls |-> <<"getObjectHouse", "houseOf">>]
    ELSE [raised |-> FALSE, value |-> NoHouse, calls |-> <<"getObjectHouse", "houseOf">>]

\* safe_house(chart, body_obj) for the i-th body: the value returned, the
\* lookups called in order, and whether an exception left the function
safe_house(c, i) ==
    IF c.primary \in {"int", "obj_num"}
        THEN [raised |-> FALSE, value |-> House(PrimaryHouse(i)), calls |-> <<"getObjectHouse">>]
    ELSE IF c.secondary = "int"
        THEN [raised |-> FALSE, value |-> House(SecondaryHouse(i)),
              calls |-> <<"getObjectHouse", "houseOf">>]
    ELSE [raised |-> FALSE, value |-> NoHouse, calls |-> <<"getObjectHouse", "houseOf">>]

-----------------------------------------------------------------------------
(* 4.3 Chart query facade: POST /astro_eval *)

\* str(e)
Str(e) == IF e.type = "HTTPException" THEN <<Dec(e.status), ": ", e.detail>>
          ELSE <<e.detail>>

\* traceback.format_exc(limit): per exception of the chain, its first `limit` frames
format_exc(e, limit) == [context |-> Take(e.context, limit), frames |-> Take(e.tb, limit)]

\* an except clause that lets an HTTPException through unchanged (not the code)
astro_eval_except_reraise(e) ==
    IF e.type = "HTTPException"
        THEN [status |-> e.status, detail |-> e.detail]
        ELSE [status |-> 400,
              detail |-> [error |-> Str(e), trace |-> format_exc(e, TraceLimit)]]

\* the except clause of astro_eval
astro_eval_except(e) ==
    [status |-> 400, detail |-> [error |-> Str(e), trace |-> format_exc(e, TraceLimit)]]

\* the entry appended for the i-th body
PlanetEntry(c, i) ==
    [planet |-> PLANETS[i],
     lon_ecl |-> <<"round(lon, 4)", PLANETS[i]>>,
     lat_ecl |-> <<"round(lat, 4)", PLANETS[i]>>,
     sign |-> BodySign(i),
     house |-> safe_house(c, i).value,
     ra |-> <<"round(ra, 4)", PLANETS[i]>>,
     decl |-> <<"round(decl, 4)", PLANETS[i]>>]

\* the line records built type-major (not the code)
BuildLines_type_major(ps) ==
    [k \in 1 .. (Len(ps) * Len(LINE_TYPES)) |->
        [planet |-> ps[((k - 1) % Len(ps)) + 1].planet,
         type |-> LINE_TYPES[((k - 1) \div Len(ps)) + 1],
         polyline_geojson |-> None]]

\* [{...} for p in planets for t in ["AC","DC","MC","IC"]]
BuildLines(ps) ==
    [k \in 1 .. (Len(ps) * Len(LINE_TYPES)) |->
        [planet |-> ps[((k - 1) \div Len(LINE_TYPES)) + 1].planet,
         type |-> LINE_TYPES[((k - 1) % Len(LINE_TYPES)) + 1],
         polyline_geojson |-> None]]

Summary(c) == <<"Sonne in ", BodySign(1), ", Mond in ", BodySign(2), ". Fokus auf ",
                BodySign(1), " (Selbstausdruck) & ", BodySign(2), " (Gefuehle).">>

\* a birth date at the edge of datetime's range
EdgeYear(date) == date.form = "ymd" /\ date.y \in {1, 9999}

\* Requests: every combination of the given field values, the edge years
\* only with a zone name that resolves to UTC (the zone table covers 2021)
Requests(dates, times, zones, lats, lons) ==
    {r \in [birthdate_iso : dates, birthtime_24 : times, latitude : lats,
            longitude : lons, timezone_name : zones, birthplace_text : {"Linz, Austria"}] :
        EdgeYear(r.birthdate_iso) => resolve_tz(r.timezone_name) = "UTC"}

Linz == [lat |-> Float(48 * UnitsPerHour + 18 * UnitsPerMinute + 1),
         lon |-> Float(14 * UnitsPerHour + 17 * UnitsPerMinute)]

RequestsEval ==
    Requests({Date(2021, 7, 4), Date(1983, 13, 99), Date(9999, 12, 31)},
             {Time(12, 10), Time(25, 0), TimeOff(23, 0, -1, 5)},
             {None, "Europe/Vienna"},
             {Linz.lat, NaN},
             {Linz.lon})

Init ==
    /\ pc = "to_dt"
    /\ data \in RequestsEval
    /\ fdt = NoValue
    /\ lat_str = NoValue
    /\ lon_str = NoValue
    /\ chart = NoValue
    /\ planets = <<>>
    /\ lookups = <<>>
    /\ raised = NoValue
    /\ response = NoValue
    /\ call = NoValue
    /\ ret = NoValue

\* the try block left by exception e: the except clause builds the response
Except(e) ==
    /\ raised' = e
    /\ response' = astro_eval_except(e)
    /\ pc' = "done"

\* fdt = to_dt(data)
EvalNormalize ==
    /\ pc = "to_dt"
    /\ LET r == to_dt(data, <<"astro_eval">>)
       IN  IF r.ok
               THEN /\ fdt' = r.val
                    /\ pc' = "format_pos"
                    /\ UNCHANGED <<raised, response>>
               ELSE /\ Except(r.exc)
                    /\ UNCHANGED fdt
    /\ UNCHANGED <<data, lat_str, lon_str, chart, planets, lookups, call, ret>>

\* int(abs(value)) raises ValueError on a NaN
dec_to_dm_raises(value) == value.nan

\* lat_str, lon_str = dec_to_dm_str(...)
EvalFormatPos ==
    /\ pc = "format_pos"
    /\ IF dec_to_dm_raises(data.latitude) \/ dec_to_dm_raises(data.longitude)
           THEN /\ Except(Exception("ValueError", "cannot convert float NaN to integer",
                                    <<"astro_eval", "dec_to_dm_str">>))
                /\ UNCHANGED <<lat_str, lon_str>>
           ELSE /\ lat_str' = dec_to_dm_str(data.latitude.v, TRUE)
                /\ lon_str' = dec_to_dm_str(data.longitude.v, FALSE)
                /\ pc' = "chart"
                /\ UNCHANGED <<raised, response>>
    /\ UNCHANGED <<data, fdt, chart, planets, lookups, call, ret>>

\* pos = GeoPos(lat_str, lon_str); chart = Chart(fdt, pos, IDs=PLANETS)
EvalBuildChart ==
    /\ pc = "chart"
    /\ \E c \in Charts :
        /\ chart' = c
        /\ pc' = "loop"
    /\ UNCHANGED <<data, fdt, lat_str, lon_str, planets, lookups, raised, response, call, ret>>

\* the engine raises while the position or the chart is built
EvalBuildChartFails ==
    /\ pc = "chart"
    /\ \E depth \in 1 .. MaxLibDepth :
        Except(Exception("EngineError", "chart construction failed", EngineTb(depth)))
    /\ UNCHANGED <<data, fdt, lat_str, lon_str, chart, planets, lookups, call, ret>>

\* one iteration of: for p in PLANETS
EvalExtractBody ==
    /\ pc = "loop"
    /\ LET i == Len(planets) + 1
           h == safe_house(chart, i)
       IN  IF chart.fail_at = i
               THEN /\ Except(Exception("KeyError", PLANETS[i], EngineTb(chart.fail_depth)))
                    /\ UNCHANGED <<planets, lookups>>
           ELSE IF h.raised
               THEN /\ Except(Exception("TypeError", "int() argument", <<"astro_eval", "safe_house">>))
                    /\ lookups' = h.calls
                    /\ UNCHANGED planets
           ELSE /\ planets' = Append(planets, PlanetEntry(chart, i))
                /\ lookups' = h.calls
                /\ pc' = IF i = Len(PLANETS) THEN "summary" ELSE "loop"
                /\ UNCHANGED <<raised, response>>
    /\ UNCHANGED <<data, fdt, lat_str, lon_str, chart, call, ret>>

\* the summary, the line records and the returned payload
EvalRespond ==
    /\ pc = "summary"
    /\ IF chart.fail_at = Len(PLANETS) + 1
           THEN Except(Exception("KeyError", "Sun", EngineTb(chart.fail_depth)))
           ELSE /\ response' =
                       [status |-> 200,
                        body |-> [astro_eval_summary |-> Summary(chart),
                                  natal_planets |-> planets,
                                  astro_lines |-> BuildLines(planets),
                                  birthplace_text |-> data.birthplace_text,
                                  latitude |-> data.latitude,
                                  longitude |-> data.longitude]]
                /\ pc' = "done"
                /\ UNCHANGED raised
    /\ UNCHANGED <<data, fdt, lat_str, lon_str, chart, planets, lookups, call, ret>>

Next ==
    \/ EvalNormalize
    \/ EvalFormatPos
    \/ EvalBuildChart
    \/ EvalBuildChartFails
    \/ EvalExtractBody
    \/ EvalRespond

Spec == Init /\ [][Next]_vars

-----------------------------------------------------------------------------
(* POST /debug: to_dt and dec_to_dm_str alone, no try block *)

\* an exception that leaves a handler: the framework answers an HTTPException
\* with its status and detail, anything else with 500
Uncaught(e) ==
    IF e.type = "HTTPException"
        THEN [status |-> e.status, detail |-> e.detail]
        ELSE [status |-> 500, detail |-> "Internal Server Error"]

DebugDates ==
    {Date(2021, 1, 15), Date(2021, 3, 14), Date(2021, 3, 28), Date(2021, 7, 4),
     Date(2021, 10, 31), Date(2021, 12, 31), Date(2021, 2, 29), Date(1983, 13, 99),
     Date(1, 1, 1), Date(9999, 12, 31), JunkDate}

RequestsDebug ==
    Requests(DebugDates,
             {Time(0, 0), Time(2, 30), Time(12, 10), Time(23, 59), Time(24, 0), Time(12, 60),
              TimeOff(12, 10, 1, 5), TimeOff(0, 0, 1, 5), TimeOff(23, 0, -1, 5),
              TimeOff(12, 10, 1, 0), TimeOff(12, 10, 1, 24), JunkTime},
             {None, "", "UTC", "Europe/Vienna", "America/New_York", "Asia/Kolkata",
              "Mars/Phobos"},
             {Linz.lat, Float(-1), NaN},
             {Linz.lon})

InitDebug ==
    /\ pc = "to_dt"
    /\ data \in RequestsDebug
    /\ fdt = NoValue
    /\ lat_str = NoValue
    /\ lon_str = NoValue
    /\ chart = NoValue
    /\ planets = <<>>
    /\ lookups = <<>>
    /\ raised = NoValue
    /\ response = NoValue
    /\ call = NoValue
    /\ ret = NoValue

\* fdt = to_dt(data)
DebugNormalize ==
    /\ pc = "to_dt"
    /\ LET r == to_dt(data, <<"debug">>)
       IN  IF r.ok
               THEN /\ fdt' = r.val
                    /\ pc' = "format_pos"
                    /\ UNCHANGED <<raised, response>>
               ELSE /\ raised' = r.exc
                    /\ response' = Uncaught(r.exc)
                    /\ pc' = "done"
                    /\ UNCHANGED fdt
    /\ UNCHANGED <<data, lat_str, lon_str, chart, planets, lookups, call, ret>>

\* lat_str, lon_str and the returned payload
DebugRespond ==
    /\ pc = "format_pos"
    /\ IF dec_to_dm_raises(data.latitude) \/ dec_to_dm_raises(data.longitude)
           THEN LET e == Exception("ValueError", "cannot convert float NaN to integer",
                                   <<"debug", "dec_to_dm_str">>)
                IN  /\ raised' = e
                    /\ response' = Uncaught(e)
                    /\ UNCHANGED <<lat_str, lon_str>>
           ELSE /\ lat_str' = dec_to_dm_str(data.latitude.v, TRUE)
                /\ lon_str' = dec_to_dm_str(data.longitude.v, FALSE)
                /\ response' =
                       [status |-> 200,
                        body |-> [date |-> fdt.date, time |-> fdt.time,
                                  utcoffset |-> fdt.utcoffset,
                                  lat_str |-> lat_str', lon_str |-> lon_str',
                                  timezone_name |-> IF data.timezone_name \in {None, ""}
                                                        THEN "UTC" ELSE data.timezone_name,
                                  planets_used |-> PLANETS]]
                /\ UNCHANGED raised
    /\ pc' = "done"
    /\ UNCHANGED <<data, fdt, chart, planets, lookups, call, ret>>

NextDebug == DebugNormalize \/ DebugRespond

SpecDebug == InitDebug /\ [][NextDebug]_vars

-----------------------------------------------------------------------------
(* Formatter harness: each formatter applied to every value of a grid *)

OffsetGrid == (-(MaxWestHours * UnitsPerHour)) .. (MaxEastHours * UnitsPerHour)

DegreeGrid == (-(MaxDeg * UnitsPerHour)) .. (MaxDeg * UnitsPerHour)

FmtCalls ==
    [fn : {"format_utcoffset"}, offset : OffsetGrid]
    \cup [fn : {"dec_to_dm_str"}, value : DegreeGrid, is_lat : BOOLEAN]

InitFmt ==
    /\ call \in FmtCalls
    /\ ret = NoValue
    /\ pc = "idle"
    /\ data = NoValue
    /\ fdt = NoValue
    /\ lat_str = NoValue
    /\ lon_str = NoValue
    /\ chart = NoValue
    /\ planets = <<>>
    /\ lookups = <<>>
    /\ raised = NoValue
    /\ response = NoValue

CallFormatUtcOffset ==
    /\ call.fn = "format_utcoffset"
    /\ ret = NoValue
    /\ ret' = format_utcoffset(call.offset)
    /\ UNCHANGED <<call, hvars>>

CallDecToDmStr ==
    /\ call.fn = "dec_to_dm_str"
    /\ ret = NoValue
    /\ ret' = dec_to_dm_str(call.value, call.is_lat)
    /\ UNCHANGED <<call, hvars>>

NextFmt == CallFormatUtcOffset \/ CallDecToDmStr

SpecFmt == InitFmt /\ [][NextFmt]_vars

-----------------------------------------------------------------------------
(* Reading a formatted string back *)

IsDigit(c) == \E d \in 1 .. 10 : DigitChars[d] = c

DigitVal(c) == (CHOOSE d \in 1 .. 10 : DigitChars[d] = c) - 1

AllDigits(s) == \A k \in 1 .. Len(s) : IsDigit(s[k])

RECURSIVE Num(_)
Num(s) == IF s = <<>> THEN 0
          ELSE Num(SubSeq(s, 1, Len(s) - 1)) * 10 + DigitVal(s[Len(s)])

\* the request's date/time text parses
Parses == fromisoformat(data.birthdate_iso, data.birthtime_24).ok

-----------------------------------------------------------------------------
(* Properties of POST /astro_eval, under Spec *)

\* C1: whenever the date/time text of an /astro_eval request does not parse,
\* the caller receives HTTP 422 whose detail is the parse message of to_dt.
C1_ParseFailureIs422 ==
    (pc = "done" /\ ~Parses) =>
        /\ response.status = 422
        /\ response.detail
               = <<"Invalid date/time: ",
                   fromisoformat(data.birthdate_iso, data.birthtime_24).msg>>

\* C2: every execution of astro_eval ends either with the payload or, when a
\* step raised, with HTTP 400 whose detail holds the message of the exception
\* (error) and a trace of at most 4 frames, the first frames of its traceback.
C2_EveryFailureIs400 ==
    /\ (raised # NoValue) => (pc = "done")
    /\ (pc = "done") =>
          IF raised = NoValue
              THEN response.status = 200
              ELSE /\ response.status = 400
                   /\ DOMAIN response.detail = {"error", "trace"}
                   /\ response.detail.error = Str(raised)
                   /\ Len(response.detail.trace.frames) <= 4
                   /\ Len(response.detail.trace.context) <= 4
                   /\ response.detail.trace.frames
                          = SubSeq(raised.tb, 1, Len(response.detail.trace.frames))
                   /\ (Len(raised.tb) >= 4 => Len(response.detail.trace.frames) = 4)

\* C2 witness: the engine raised more than 4 frames deep and the trace holds 4
C2_Witness ==
    /\ pc = "done"
    /\ raised # NoValue
    /\ raised.type = "KeyError"
    /\ Len(raised.tb) > 4
    /\ response.status = 400
    /\ Len(response.detail.trace.frames) = 4

\* C3: a successful response holds exactly the 10 bodies in the fixed order and
\* exactly the 40 line records, body-major, each with no geometry.
C3_TenPlanetsFortyLines ==
    (pc = "done" /\ response.status = 200) =>
        LET names == <<"Sun", "Moon", "Mercury", "Venus", "Mars", "Jupiter", "Saturn",
                       "Uranus", "Neptune", "Pluto">>
            types == <<"AC", "DC", "MC", "IC">>
            ps == response.body.natal_planets
            ls == response.body.astro_lines
        IN  /\ Len(ps) = 10
            /\ \A i \in 1 .. 10 : ps[i].planet = names[i]
            /\ Len(ls) = 40
            /\ \A i \in 1 .. 10 : \A j \in 1 .. 4 :
                   ls[(i - 1) * 4 + j]
                       = [planet |-> names[i], type |-> types[j], polyline_geojson |-> None]

\* C3 witness: a request answered with the payload
C3_Witness ==
    /\ pc = "done"
    /\ response.status = 200
    /\ Len(response.body.astro_lines) = 40

\* C8: safe_house never raises; it asks the primary lookup first and returns its
\* value, without asking the secondary, when that value converts to an integer;
\* otherwise it asks the secondary; when both fail the house is None.
C8_SafeHouseFallback ==
    /\ (raised # NoValue) => (raised.tb # <<"astro_eval", "safe_house">>)
    /\ (chart # NoValue /\ Len(planets) >= 1) =>
          LET primary_ok == chart.primary \in {"int", "obj_num"}
              secondary_ok == chart.secondary = "int"
              Expected(i) == IF primary_ok THEN <<PrimaryHouse(i)>>
                             ELSE IF secondary_ok THEN <<SecondaryHouse(i)>>
                             ELSE <<>>
          IN  /\ \A i \in 1 .. Len(planets) : planets[i].house = Expected(i)
              /\ lookups = IF primary_ok THEN <<"getObjectHouse">>
                           ELSE <<"getObjectHouse", "houseOf">>

\* C8 witness: the primary lookup answered a value int() rejects and the
\* secondary lookup supplied the house
C8_Witness ==
    /\ chart # NoValue
    /\ chart.primary = "obj_method"
    /\ chart.secondary = "int"
    /\ Len(planets) = 3
    /\ planets[3].house = <<SecondaryHouse(3)>>
    /\ lookups = <<"getObjectHouse", "houseOf">>

-----------------------------------------------------------------------------
(* Properties of to_dt, under SpecDebug *)

\* C4: with a zone name absent or unknown and a date/time text that parses,
\* to_dt returns, and the offset it returns is "+00:00".
C4_UnknownZoneIsUtc ==
    (pc # "to_dt" /\ Parses
        /\ (data.timezone_name = None \/ data.timezone_name \notin KnownZones)) =>
        /\ fdt # NoValue
        /\ fdt.utcoffset = <<"+", "0", "0", ":", "0", "0">>

\* the side of the daylight-saving transitions of 2021 a date lies on; the
\* days of the transitions themselves are on neither side
Season(zone, date) ==
    LET md == date.m * 100 + date.d
        spring == IF zone = "Europe/Vienna" THEN 328 ELSE 314
        autumn == IF zone = "Europe/Vienna" THEN 1031 ELSE 1107
    IN  IF date.form # "ymd" \/ date.y # 2021 THEN "none"
        ELSE IF md < spring \/ md > autumn THEN "winter"
        ELSE IF md > spring /\ md < autumn THEN "summer"
        ELSE "none"

\* C7: in a zone with daylight-saving time, the same wall-clock time on a date
\* before a transition and on a date after it gets different offset strings.
C7_OffsetFollowsDst ==
    (fdt # NoValue /\ data.timezone_name \in {"Europe/Vienna", "America/New_York"}) =>
        \A d2 \in DebugDates :
            LET here == Season(data.timezone_name, data.birthdate_iso)
                there == Season(data.timezone_name, d2)
                r2 == to_dt([data EXCEPT !.birthdate_iso = d2], <<"debug">>)
            IN  (here # "none" /\ there # "none" /\ here # there /\ r2.ok) =>
                    r2.val.utcoffset # fdt.utcoffset

\* C7 witness: a summer date in Vienna, normalized to +02:00
C7_Witness ==
    /\ fdt # NoValue
    /\ data.timezone_name = "Europe/Vienna"
    /\ data.birthdate_iso = Date(2021, 7, 4)
    /\ data.birthtime_24 = Time(12, 10)
    /\ fdt.utcoffset = <<"+", "0", "2", ":", "0", "0">>

\* the date and time strings spell the fields of the request's own texts
CarriesInputFields ==
    /\ Len(fdt.date) = 10
    /\ fdt.date[5] = "/"
    /\ fdt.date[8] = "/"
    /\ AllDigits(SubSeq(fdt.date, 1, 4)) /\ Num(SubSeq(fdt.date, 1, 4)) = data.birthdate_iso.y
    /\ AllDigits(SubSeq(fdt.date, 6, 7)) /\ Num(SubSeq(fdt.date, 6, 7)) = data.birthdate_iso.m
    /\ AllDigits(SubSeq(fdt.date, 9, 10)) /\ Num(SubSeq(fdt.date, 9, 10)) = data.birthdate_iso.d
    /\ Len(fdt.time) = 5
    /\ fdt.time[3] = ":"
    /\ AllDigits(SubSeq(fdt.time, 1, 2)) /\ Num(SubSeq(fdt.time, 1, 2)) = data.birthtime_24.h
    /\ AllDigits(SubSeq(fdt.time, 4, 5)) /\ Num(SubSeq(fdt.time, 4, 5)) = data.birthtime_24.mi

\* C9 as stated: for every input that parses, the date and time returned carry
\* the year, month, day, hour and minute given, whatever the zone.
C9_WallClockKept_AllInputs == (fdt # NoValue) => CarriesInputFields

\* C9 amended: for every input that parses and whose birthtime_24 carries no UTC
\* offset, the date and time returned carry the year, month, day, hour and
\* minute given, whatever the zone.
C9_WallClockKept_Naive ==
    (fdt # NoValue /\ data.birthtime_24.form = "hm") => CarriesInputFields

\* C9 witness: a wall-clock time in Kolkata, attached and not converted
C9_Witness ==
    /\ fdt # NoValue
    /\ data.timezone_name = "Asia/Kolkata"
    /\ data.birthdate_iso = Date(2021, 12, 31)
    /\ data.birthtime_24 = Time(23, 59)
    /\ fdt.date = <<"2", "0", "2", "1", "/", "1", "2", "/", "3", "1">>
    /\ fdt.time = <<"2", "3", ":", "5", "9">>
    /\ fdt.utcoffset = <<"+", "0", "5", ":", "3", "0">>

-----------------------------------------------------------------------------
(* Properties of the formatters, under SpecFmt *)

\* C5: dec_to_dm_str returns <deg><hemisphere><mm> with mm two digits in 0..59,
\* deg and mm the value rounded to the nearest minute (minutes that round to 60
\* carry into the degree), and the hemisphere n/s for a latitude, e/w for a
\* longitude, with n or e for every value >= 0.
C5_DegreeMinuteString ==
    (call # NoValue /\ call.fn = "dec_to_dm_str" /\ ret # NoValue) =>
        LET n == Len(ret)
            a == Abs(call.value)
            whole == a \div UnitsPerHour
            rest == a - whole * UnitsPerHour
            deg == Num(SubSeq(ret, 1, n - 3))
            mm == Num(SubSeq(ret, n - 1, n))
        IN  /\ n >= 4
            /\ AllDigits(SubSeq(ret, 1, n - 3))
            /\ AllDigits(SubSeq(ret, n - 1, n))
            /\ mm \in 0 .. 59
            /\ 2 * Abs((deg * 60 + mm) * UnitsPerMinute - a) <= UnitsPerMinute
            /\ (2 * (UnitsPerHour - rest) < UnitsPerMinute) => (deg = whole + 1 /\ mm = 0)
            /\ (2 * (UnitsPerHour - rest) > UnitsPerMinute) => (deg = whole)
            /\ ret[n - 2] = IF call.is_lat THEN (IF call.value >= 0 THEN "n" ELSE "s")
                            ELSE (IF call.value >= 0 THEN "e" ELSE "w")

\* C5 witness: a southern latitude whose minutes round to 60, returned as 1s00
C5_Witness ==
    /\ call # NoValue
    /\ call.fn = "dec_to_dm_str"
    /\ call.is_lat
    /\ call.value = -(UnitsPerHour - 1)
    /\ ret # NoValue
    /\ ret = <<"1", "s", "0", "0">>

\* C6: for every offset in the range, format_utcoffset returns sign, two hour
\* digits, ':' and two minute digits, the sign '+' exactly when the offset is
\* >= 0, the hours the integer part of the magnitude and the minutes its
\* fractional part times 60 rounded to the nearest integer; 0 gives "+00:00",
\* -5.5 gives "-05:30" and 5.75 gives "+05:45".
C6_OffsetString ==
    (call # NoValue /\ call.fn = "format_utcoffset" /\ ret # NoValue) =>
        LET ah == Abs(call.offset)
            whole == ah \div UnitsPerHour
            rest == ah - whole * UnitsPerHour
        IN  /\ Len(ret) = 6
            /\ ret[1] = IF call.offset >= 0 THEN "+" ELSE "-"
            /\ IsDigit(ret[2]) /\ IsDigit(ret[3])
            /\ ret[4] = ":"
            /\ IsDigit(ret[5]) /\ IsDigit(ret[6])
            /\ Num(SubSeq(ret, 2, 3)) = whole
            /\ 2 * Abs(Num(SubSeq(ret, 5, 6)) * UnitsPerMinute - rest) <= UnitsPerMinute
            /\ (call.offset = 0) => (ret = <<"+", "0", "0", ":", "0", "0">>)
            /\ (2 * call.offset = -(11 * UnitsPerHour)) =>
                   (ret = <<"-", "0", "5", ":", "3", "0">>)
            /\ (4 * call.offset = 23 * UnitsPerHour) =>
                   (ret = <<"+", "0", "5", ":", "4", "5">>)

\* C6 witness: the offset -5.5 hours, returned as -05:30
C6_Witness ==
    /\ call # NoValue
    /\ call.fn = "format_utcoffset"
    /\ 2 * call.offset = -(11 * UnitsPerHour)
    /\ ret # NoValue
    /\ ret = <<"-", "0", "5", ":", "3", "0">>

\* C10: the minutes field of format_utcoffset's result is always in 0..59.
C10_MinutesBelow60 ==
    (call # NoValue /\ call.fn = "format_utcoffset" /\ ret # NoValue) =>
        Num(SubSeq(ret, 5, 6)) \in 0 .. 59

====
